---- MODULE Spec2Model ----
(***************************************************************************)
(* Model of multitesting_corr.py: p_multitest and the three p-value        *)
(* corrections it dispatches to (_holm_correct, _bonferroni_correct,       *)
(* _benj_hochberg_correct).                                                *)
(*                                                                         *)
(* Numbers.  The program computes in binary floating point (numpy float64, *)
(* round to nearest, ties to even).  The model keeps that arithmetic but   *)
(* at a reduced width: a float has Precision significand bits and is held  *)
(* as an integer count of units of 2^-FracBits, so 1.0 is One.  A value    *)
(* below 2^Precision units is exact (gradual underflow); above, only       *)
(* multiples of the binade's ulp are representable and every product and   *)
(* quotient is rounded to one of them.                                     *)
(***************************************************************************)
EXTENDS Integers, Sequences, FiniteSets

\* ---- bounds of the model ------------------------------------------------
Precision == 5      \* significand bits of the modelled float format
FracBits == 5       \* 1.0 is 2^FracBits units
MaxLen == 3         \* longest input sequence
Grid == 8           \* the inputs include the multiples of 1/Grid (rounded down to units)

One == 2 ^ FracBits

\* ---- floating point -----------------------------------------------------
RECURSIVE BitLen(_)
BitLen(q) == IF q = 0 THEN 0 ELSE 1 + BitLen(q \div 2)

\* spacing of the representable values around q units
Ulp(q) == IF q < 2 ^ Precision THEN 1 ELSE 2 ^ (BitLen(q) - Precision)

\* the float nearest to the exact quotient a / b (a >= 0, b >= 1), ties to even
FRound(a, b) ==
    LET ulp == Ulp(a \div b)
        lo  == (a \div (b * ulp)) * ulp
        r   == a - lo * b
    IN  IF 2 * r < ulp * b THEN lo
        ELSE IF 2 * r > ulp * b THEN lo + ulp
        ELSE IF (lo \div ulp) % 2 = 0 THEN lo ELSE lo + ulp

\* float * int: the int converts exactly, the product is rounded once
FMul(x, n) == FRound(x * n, 1)

\* float / int: the quotient is rounded once
FDiv(x, n) == FRound(x, n)

IsFloat(n) == FRound(n, 1) = n

Min(a, b) == IF a <= b THEN a ELSE b
Max(a, b) == IF a >= b THEN a ELSE b

\* ---- inputs ---------------------------------------------------------------
\* 13/16 in units: at five significand bits its product by 3 is not representable
RoundingProbe == (13 * One) \div 16

\* p-values in [0, 1] offered to the program
PVals == {n \in {i * (One \div Grid) : i \in 0..Grid} \cup {RoundingProbe} :
            n <= One /\ IsFloat(n)}

RECURSIVE SeqsUpTo(_)
SeqsUpTo(n) == IF n = 0 THEN {<< >>} ELSE SeqsUpTo(n - 1) \cup [1..n -> PVals]

MethodNames == {"holm", "bonferroni", "fdr", "xyz", "Holm"}

\* ---- the dict the corrections return ------------------------------------
EmptyMap == [x \in {} |-> 0]

\* p_map[key] = value
MapPut(f, key, value) ==
    [x \in (DOMAIN f) \cup {key} |-> IF x = key THEN value ELSE f[x]]

\* for p in range(m): p_map[pvals_sorted[p]] = pvals_adjust[p]
RECURSIVE AssembleFrom(_, _, _, _)
AssembleFrom(f, s, adj, p) ==
    IF p > Len(s) THEN f
    ELSE AssembleFrom(MapPut(f, s[p], adj[p]), s, adj, p + 1)

AssembleNoLast(s, adj) ==
    AssembleFrom(EmptyMap, SubSeq(s, 1, Len(s) - 1), adj, 1)

Assemble(s, adj) == AssembleFrom(EmptyMap, s, adj, 1)

\* ---- np.sort ------------------------------------------------------------
RECURSIVE Insert(_, _)
Insert(s, x) ==
    IF s = << >> THEN <<x>>
    ELSE IF x <= Head(s) THEN <<x>> \o s
    ELSE <<Head(s)>> \o Insert(Tail(s), x)

RECURSIVE SortFrom(_, _)
SortFrom(acc, s) ==
    IF s = << >> THEN acc ELSE SortFrom(Insert(acc, Head(s)), Tail(s))

SortUnsorted(pv) == pv

Sort(pv) == SortFrom(<< >>, pv)

\* ---- _bonferroni_correct ------------------------------------------------
RECURSIVE BonferroniFrom(_, _, _, _)
BonferroniFrom(f, pv, n, i) ==
    IF i > Len(pv) THEN f
    ELSE BonferroniFrom(MapPut(f, pv[i], Min(FMul(pv[i], n), One)), pv, n, i + 1)

Range(s) == {s[i] : i \in DOMAIN s}

bonferroni_distinct(pv) ==
    BonferroniFrom(EmptyMap, pv, Cardinality(Range(pv)), 1)

_bonferroni_correct(pv) ==
    BonferroniFrom(EmptyMap, pv, Len(pv), 1)

\* ---- _holm_correct ------------------------------------------------------
\* pvals_adjust[k] = min(pvals_sorted[k] * (m + 1 - (k + 1)), 1), k 0-based;
\* here r = k + 1
HolmRawOffByOne(s, r) == Min(FMul(s[r], Len(s) + 2 - r), One)

HolmRawUnclamped(s, r) == FMul(s[r], Len(s) + 1 - r)

HolmRaw(s, r) == Min(FMul(s[r], Len(s) + 1 - r), One)

\* for a, b in zip(pvals_adjust[1:], pvals_adjust): pvals_adjust[i] = max(a, b)
\* both iterators read the array being written, so b is the value stored
\* by the previous iteration
RECURSIVE HolmPassFrom(_, _)
HolmPassFrom(adj, i) ==
    IF i > Len(adj) THEN adj
    ELSE HolmPassFrom([adj EXCEPT ![i] = Max(adj[i], adj[i - 1])], i + 1)

HolmPassSkipped(raw) == raw

HolmPassOnCopy(raw) ==
    [i \in DOMAIN raw |-> IF i = 1 THEN raw[i] ELSE Max(raw[i], raw[i - 1])]

HolmPass(raw) == IF Len(raw) > 1 THEN HolmPassFrom(raw, 2) ELSE raw

HolmAdjust(s) == HolmPass([r \in 1..Len(s) |-> HolmRaw(s, r)])

_holm_correct(pv) ==
    LET pvals_sorted == Sort(pv)
    IN  Assemble(pvals_sorted, HolmAdjust(pvals_sorted))

\* ---- _benj_hochberg_correct ---------------------------------------------
\* pvals_adjust[k] = min(pvals_sorted[k] * m / (k + 1), 1), k 0-based; r = k + 1
FdrRaw(s, r) == Min(FDiv(FMul(s[r], Len(s)), r), One)

_benj_hochberg_correct(pv) ==
    LET pvals_sorted == Sort(pv)
    IN  Assemble(pvals_sorted, [r \in 1..Len(pvals_sorted) |-> FdrRaw(pvals_sorted, r)])

\* ---- p_multitest --------------------------------------------------------
supported_methods == <<"holm", "bonferroni">>

NoMessage == [value |-> "", supported |-> << >>]

Returned(m) == [outcome |-> "returned", p_map |-> m, message |-> NoMessage]

\* ValueError(f"Unknown method {method}, must be one of {', '.join(supported_methods)}")
Raised(meth) ==
    [outcome |-> "raised", p_map |-> EmptyMap,
     message |-> [value |-> meth, supported |-> supported_methods]]

p_multitest_without_fdr(pv, meth) ==
    IF meth = "holm" THEN Returned(_holm_correct(pv))
    ELSE IF meth = "bonferroni" THEN Returned(_bonferroni_correct(pv))
    ELSE Raised(meth)

p_multitest(pv, meth) ==
    IF meth = "holm" THEN Returned(_holm_correct(pv))
    ELSE IF meth = "bonferroni" THEN Returned(_bonferroni_correct(pv))
    ELSE IF meth = "fdr" THEN Returned(_benj_hochberg_correct(pv))
    ELSE Raised(meth)

\* ---- the state machine: one call of p_multitest ---------------------------
VARIABLES pvals, method, outcome, p_map, message

vars == <<pvals, method, outcome, p_map, message>>

Init ==
    /\ pvals \in SeqsUpTo(MaxLen)
    /\ method \in MethodNames
    /\ outcome = "pending"
    /\ p_map = EmptyMap
    /\ message = NoMessage

Call ==
    /\ outcome = "pending"
    /\ LET r == p_multitest(pvals, method)
       IN  /\ outcome' = r.outcome
           /\ p_map' = r.p_map
           /\ message' = r.message
    /\ UNCHANGED <<pvals, method>>

Next == Call

Spec == Init /\ [][Next]_vars

\* ---- properties -----------------------------------------------------------
Recognized == {"holm", "bonferroni", "fdr"}

Inputs == Range(pvals)

HasDuplicates == Cardinality(Inputs) < Len(pvals)

\* every reordering of the sequence s
Permuted(s) ==
    LET idx == {f \in [1..Len(s) -> 1..Len(s)] :
                  \A i, j \in 1..Len(s) : f[i] = f[j] => i = j}
    IN  {[i \in 1..Len(s) |-> s[f[i]]] : f \in idx}

SetMax(S) == CHOOSE x \in S : \A y \in S : y <= x

\* C1: an unrecognized method name ends in the error with no mapping at
\* all, whatever the p-values; each of 'holm', 'bonferroni', 'fdr' ends in a
\* returned mapping and never in the error.
C1_DispatchOutcome ==
    outcome # "pending" =>
        IF method \in Recognized
        THEN outcome = "returned"
        ELSE outcome = "raised" /\ p_map = EmptyMap

C1_Witness ==
    /\ outcome = "raised"
    /\ method = "xyz"
    /\ Len(pvals) >= 2

\* C2: the error raised for an unsupported name carries the offending value,
\* and the names it lists are exactly the names the dispatcher accepts.
C2_MessageListsAccepted ==
    outcome = "raised" =>
        /\ message.value = method
        /\ Range(message.supported) = Recognized

\* C3: 'bonferroni' maps every input p to min(p * m, 1), m the length of
\* the input counting duplicates, and that value is at least p.
C3_Bonferroni ==
    (outcome = "returned" /\ method = "bonferroni" /\ Len(pvals) >= 1) =>
        \A i \in DOMAIN pvals :
            /\ p_map[pvals[i]] = Min(FMul(pvals[i], Len(pvals)), One)
            /\ p_map[pvals[i]] >= pvals[i]

C3_Witness ==
    /\ outcome = "returned"
    /\ method = "bonferroni"
    /\ HasDuplicates
    /\ \E p \in Inputs : p < p_map[p] /\ p_map[p] < One
    /\ \E p \in Inputs : p_map[p] = One /\ p < One

\* C4: 'holm' is monotone: for inputs p <= q, result[p] <= result[q].
C4_HolmMonotone ==
    (outcome = "returned" /\ method = "holm") =>
        \A p, q \in Inputs : p <= q => p_map[p] <= p_map[q]

\* the raw Holm sequence decreases somewhere, so the monotonic pass has work
C4_Witness ==
    /\ outcome = "returned"
    /\ method = "holm"
    /\ LET s == Sort(pvals)
       IN  \E r \in 1..(Len(s) - 1) :
              s[r] < s[r + 1] /\ HolmRaw(s, r + 1) < HolmRaw(s, r)

\* C5: 'fdr' is monotone: for inputs p <= q, result[p] <= result[q].
C5_FdrMonotone ==
    (outcome = "returned" /\ method = "fdr") =>
        \A p, q \in Inputs : p <= q => p_map[p] <= p_map[q]

\* C6: for the three methods and m >= 1 p-values in [0, 1], every adjusted
\* value of the returned mapping lies in [0, 1].
C6_UnitInterval ==
    (outcome = "returned" /\ Len(pvals) >= 1) =>
        \A p \in DOMAIN p_map : 0 <= p_map[p] /\ p_map[p] <= One

\* a product that exceeds 1 was cut back to 1
C6_Witness ==
    /\ outcome = "returned"
    /\ method = "holm"
    /\ LET s == Sort(pvals)
       IN  \E r \in 1..Len(s) : s[r] * (Len(s) + 1 - r) > One
    /\ \E p \in DOMAIN p_map : p_map[p] = One
    /\ \E p \in DOMAIN p_map : p_map[p] < One

\* C7: the returned mapping does not depend on the order of the input: every
\* permutation of the input sequence gives the same mapping.
C7_OrderIndependent ==
    outcome = "returned" =>
        \A q \in Permuted(pvals) :
            LET r == p_multitest(q, method)
            IN  r.outcome = "returned" /\ r.p_map = p_map

C7_Witness ==
    /\ outcome = "returned"
    /\ method = "fdr"
    /\ HasDuplicates
    /\ \E i \in 1..(Len(pvals) - 1) : pvals[i] > pvals[i + 1]

\* C8: the key set of the returned mapping is exactly the set of values
\* occurring in the input, one entry per distinct value.
C8_Keys ==
    outcome = "returned" =>
        /\ DOMAIN p_map = Inputs
        /\ Cardinality(DOMAIN p_map) = Cardinality(Inputs)

C8_Witness ==
    /\ outcome = "returned"
    /\ method = "holm"
    /\ HasDuplicates
    /\ Cardinality(DOMAIN p_map) >= 2

\* C9: for 'holm', with s the ascending sort of the m inputs, the adjusted
\* value at rank k is the running maximum over j <= k of min(s[j] * (m - j), 1)
\* (ranks 0-based), and each distinct input value is mapped to the adjusted
\* value at the highest rank that holds it.
C9_HolmRunningMax ==
    (outcome = "returned" /\ method = "holm" /\ Len(pvals) >= 1) =>
        LET s == Sort(pvals)
            m == Len(s)
            RunMax(k) == SetMax({Min(FMul(s[j], m - (j - 1)), One) : j \in 1..k})
        IN  /\ \A k \in 1..m : HolmAdjust(s)[k] = RunMax(k)
            /\ \A v \in Inputs : p_map[v] = RunMax(SetMax({k \in 1..m : s[k] = v}))

\* two raw values in a row lie below an earlier one: the second of them gets
\* the earlier value only through the already updated predecessor
C9_Witness ==
    /\ outcome = "returned"
    /\ method = "holm"
    /\ HasDuplicates
    /\ LET s == Sort(pvals)
       IN  \E k \in 3..Len(s) :
              /\ HolmRaw(s, k - 1) < HolmRaw(s, k - 2)
              /\ HolmRaw(s, k) < HolmRaw(s, k - 2)
              /\ p_map[s[k]] = HolmRaw(s, k - 2)

\* C10: on every input of m >= 1 p-values and for every input value p,
\* fdr_result[p] <= holm_result[p] <= bonferroni_result[p].
C10_Ordering ==
    (outcome = "returned" /\ method = "holm" /\ Len(pvals) >= 1) =>
        \A p \in Inputs :
            /\ _benj_hochberg_correct(pvals)[p] <= p_map[p]
            /\ p_map[p] <= _bonferroni_correct(pvals)[p]

\* C10 as amended: on every input and for every input value p,
\* holm_result[p] <= bonferroni_result[p] and fdr_result[p] <= bonferroni_result[p].
C10_BonferroniLargest ==
    (outcome = "returned" /\ method = "holm" /\ Len(pvals) >= 1) =>
        \A p \in Inputs :
            /\ p_map[p] <= _bonferroni_correct(pvals)[p]
            /\ _benj_hochberg_correct(pvals)[p] <= _bonferroni_correct(pvals)[p]

C10_Witness ==
    /\ outcome = "returned"
    /\ method = "holm"
    /\ HasDuplicates
    /\ \E p \in Inputs :
          /\ _benj_hochberg_correct(pvals)[p] < p_map[p]
          /\ p_map[p] < _bonferroni_correct(pvals)[p]
          /\ _bonferroni_correct(pvals)[p] < One

====
